---- MODULE Spec2Model ----
(***************************************************************************)
(* A model of the ePay client library (src/epay.go): the request encoder,  *)
(* the HMAC checksum, the request builder, the API constructor, the        *)
(* payment request handler and the payment callback handler.               *)
(*                                                                         *)
(* Go strings are sequences of one-character strings, so that formatting,  *)
(* splitting, parsing and base64 are computed as the code computes them.   *)
(***************************************************************************)
EXTENDS Integers, Sequences, FiniteSets, TLC

(***************************************************************************)
(* Characters and bytes                                                    *)
(***************************************************************************)

\* The printable ASCII characters, code points 32..126 in order (the grave
\* accent, 96, is spelled out: the lexer does not take it in a string).
Printable ==
    <<" ", "!", "\"", "#", "$", "%", "&", "'", "(", ")", "*", "+", ",", "-", ".", "/", "0", "1", "2", "3", "4", "5", "6", "7", "8", "9", ":", ";", "<", "=", ">", "?", "@", "A", "B", "C", "D", "E", "F", "G", "H", "I", "J", "K", "L", "M", "N", "O", "P", "Q", "R", "S", "T", "U", "V", "W", "X", "Y", "Z", "[", "\\", "]", "^", "_", "grave", "a", "b", "c", "d", "e", "f", "g", "h", "i", "j", "k", "l", "m", "n", "o", "p", "q", "r", "s", "t", "u", "v", "w", "x", "y", "z", "{", "|", "}", "~">>

\* The alphabet of base64.StdEncoding, values 0..63 in order.
B64Alphabet ==
    <<"A", "B", "C", "D", "E", "F", "G", "H", "I", "J", "K", "L", "M", "N", "O", "P", "Q", "R", "S", "T", "U", "V", "W", "X", "Y", "Z", "a", "b", "c", "d", "e", "f", "g", "h", "i", "j", "k", "l", "m", "n", "o", "p", "q", "r", "s", "t", "u", "v", "w", "x", "y", "z", "0", "1", "2", "3", "4", "5", "6", "7", "8", "9", "+", "/">>

NL == "\n"
CR == "\r"

\* The byte value of a character.
Ord(c) ==
    IF c = NL THEN 10
    ELSE IF c = CR THEN 13
    ELSE 31 + (CHOOSE i \in 1..Len(Printable) : Printable[i] = c)

\* The character of a byte value; a byte outside printable ASCII is kept
\* as the decimal numeral of its value.
Chr(b) ==
    IF b = 10 THEN NL
    ELSE IF b = 13 THEN CR
    ELSE IF b >= 32 /\ b <= 126 THEN Printable[b - 31]
    ELSE ToString(b)

IsDigit(c) == c \in {"0", "1", "2", "3", "4", "5", "6", "7", "8", "9"}

DigitVal(c) == Ord(c) - 48

DigitChr(d) == Chr(48 + d)

(***************************************************************************)
(* encoding/base64: StdEncoding.EncodeToString and DecodeString            *)
(***************************************************************************)

\* The byte at position k, 0 past the end.
ByteAt(bs, k) == IF k <= Len(bs) THEN bs[k] ELSE 0

\* Each group of three bytes gives four characters; a last group of one
\* or two bytes is padded with "=".
B64EncodeBytes(bs) ==
    [j \in 1..(4 * ((Len(bs) + 2) \div 3)) |->
        LET g == (j - 1) \div 4
            r == (j - 1) % 4
            b1 == ByteAt(bs, (3 * g) + 1)
            b2 == ByteAt(bs, (3 * g) + 2)
            b3 == ByteAt(bs, (3 * g) + 3)
        IN  IF r = 0 THEN B64Alphabet[(b1 \div 4) + 1]
            ELSE IF r = 1 THEN B64Alphabet[((b1 % 4) * 16) + (b2 \div 16) + 1]
            ELSE IF r = 2 THEN
                (IF (3 * g) + 2 <= Len(bs)
                 THEN B64Alphabet[((b2 % 16) * 4) + (b3 \div 64) + 1] ELSE "=")
            ELSE (IF (3 * g) + 3 <= Len(bs) THEN B64Alphabet[(b3 % 64) + 1] ELSE "=")]

EncodeToString(s) == B64EncodeBytes([i \in 1..Len(s) |-> Ord(s[i])])

IsB64Char(c) == \E i \in 1..Len(B64Alphabet) : B64Alphabet[i] = c

B64Val(c) == (CHOOSE i \in 1..Len(B64Alphabet) : B64Alphabet[i] = c) - 1

\* DecodeString ignores carriage returns and newlines in its input.
StripNewlines(s) == SelectSeq(s, LAMBDA c : c \notin {NL, CR})

\* One quantum of four characters; only the last may carry padding.
B64QuadOk(q, last) ==
    /\ IsB64Char(q[1])
    /\ IsB64Char(q[2])
    /\ \/ IsB64Char(q[3]) /\ IsB64Char(q[4])
       \/ last /\ IsB64Char(q[3]) /\ q[4] = "="
       \/ last /\ q[3] = "=" /\ q[4] = "="

\* The bytes of a well-formed input of whole quanta.
B64DecodeQuads(t) ==
    LET n == Len(t)
        pad == IF n = 0 THEN 0
               ELSE IF t[n - 1] = "=" THEN 2
               ELSE IF t[n] = "=" THEN 1
               ELSE 0
    IN  [k \in 1..((3 * (n \div 4)) - pad) |->
            LET g == (k - 1) \div 3
                r == (k - 1) % 3
                a == B64Val(t[(4 * g) + 1])
                b == B64Val(t[(4 * g) + 2])
            IN  IF r = 0 THEN (a * 4) + (b \div 16)
                ELSE LET c == B64Val(t[(4 * g) + 3])
                     IN  IF r = 1 THEN ((b % 16) * 16) + (c \div 4)
                         ELSE ((c % 4) * 64) + B64Val(t[(4 * g) + 4])]

\* The result of base64.StdEncoding.DecodeString: the decoded text, or err.
DecodeString(s) ==
    LET t == StripNewlines(s)
        ok == /\ Len(t) % 4 = 0
              /\ \A g \in 0..((Len(t) \div 4) - 1) :
                    B64QuadOk(SubSeq(t, (4 * g) + 1, (4 * g) + 4), g = (Len(t) \div 4) - 1)
    IN  IF ~ok THEN [err |-> TRUE, data |-> << >>]
        ELSE LET bytes == B64DecodeQuads(t)
             IN  [err |-> FALSE, data |-> [i \in 1..Len(bytes) |-> Chr(bytes[i])]]

(***************************************************************************)
(* strings.Split with a one-character separator                            *)
(***************************************************************************)

\* The index of the first sep in s, or 0.
IndexOf(s, sep) ==
    IF \E i \in 1..Len(s) : s[i] = sep
    THEN CHOOSE i \in 1..Len(s) : s[i] = sep /\ \A j \in 1..(i - 1) : s[j] # sep
    ELSE 0

\* strings.Split(s, sep): every piece between separators, at least one piece.
RECURSIVE Split(_, _)
Split(s, sep) ==
    LET i == IndexOf(s, sep)
    IN  IF i = 0 THEN << s >>
        ELSE << SubSeq(s, 1, i - 1) >> \o Split(SubSeq(s, i + 1, Len(s)), sep)

(***************************************************************************)
(* strconv.ParseUint(s, 10, 64), strconv.ParseInt(s, 10, 64) and %d.       *)
(* A 64-bit integer is held as its canonical decimal numeral (no leading   *)
(* zeros), so that the 64-bit range is kept exactly.                       *)
(***************************************************************************)

MaxUint64 == <<"1", "8", "4", "4", "6", "7", "4", "4", "0", "7", "3", "7", "0", "9", "5", "5", "1", "6", "1", "5">>
MaxInt64 == <<"9", "2", "2", "3", "3", "7", "2", "0", "3", "6", "8", "5", "4", "7", "7", "5", "8", "0", "7">>
MinInt64Magnitude == <<"9", "2", "2", "3", "3", "7", "2", "0", "3", "6", "8", "5", "4", "7", "7", "5", "8", "0", "8">>
Zero == << "0" >>

AllDigits(s) == \A i \in 1..Len(s) : IsDigit(s[i])

RECURSIVE StripZeros(_)
StripZeros(s) ==
    IF Len(s) <= 1 THEN s
    ELSE IF s[1] = "0" THEN StripZeros(Tail(s))
    ELSE s

\* a <= b for canonical numerals.
RECURSIVE NumLE(_, _)
NumLE(a, b) ==
    IF Len(a) # Len(b) THEN Len(a) < Len(b)
    ELSE IF Len(a) = 0 THEN TRUE
    ELSE IF a[1] # b[1] THEN DigitVal(a[1]) < DigitVal(b[1])
    ELSE NumLE(Tail(a), Tail(b))

\* ParseUint returns 0 with a syntax error, the maximum with a range error.
ParseUint(s) ==
    IF Len(s) = 0 \/ ~AllDigits(s) THEN [err |-> TRUE, val |-> Zero]
    ELSE LET n == StripZeros(s)
         IN  IF NumLE(n, MaxUint64) THEN [err |-> FALSE, val |-> n]
             ELSE [err |-> TRUE, val |-> MaxUint64]

\* A signed value: its sign and the numeral of its magnitude.
SignedZero == [neg |-> FALSE, mag |-> Zero]

ParseInt(s) ==
    LET signed == Len(s) > 0 /\ s[1] \in {"+", "-"}
        neg == Len(s) > 0 /\ s[1] = "-"
        body == IF signed THEN Tail(s) ELSE s
    IN  IF Len(body) = 0 \/ ~AllDigits(body) THEN [err |-> TRUE, val |-> SignedZero]
        ELSE LET n == StripZeros(body)
                 lim == IF neg THEN MinInt64Magnitude ELSE MaxInt64
             IN  IF NumLE(n, lim)
                 THEN [err |-> FALSE, val |-> [neg |-> neg /\ n # Zero, mag |-> n]]
                 ELSE [err |-> TRUE, val |-> [neg |-> neg, mag |-> lim]]

\* fmt's %d of an unsigned value.
FormatUint(n) == n

(***************************************************************************)
(* time: the zero Time, IsZero, AddDate(0, 0, n), and Parse and Format     *)
(* with the layout "02.01.2006 15:04:05"                                   *)
(***************************************************************************)

ZeroTime == [year |-> 1, month |-> 1, day |-> 1, hour |-> 0, min |-> 0, sec |-> 0]

IsZero(t) == t = ZeroTime

IsLeap(y) == (y % 4 = 0) /\ ((y % 100 # 0) \/ (y % 400 = 0))

DaysIn(m, y) ==
    IF m = 2 THEN (IF IsLeap(y) THEN 29 ELSE 28)
    ELSE IF m \in {4, 6, 9, 11} THEN 30
    ELSE 31

\* An AddDate that adds no day.
AddDaysNone(t, n) == t

\* t.AddDate(0, 0, n) for n >= 0: the date n days later, normalised.
RECURSIVE AddDays(_, _)
AddDays(t, n) ==
    IF n = 0 THEN t
    ELSE IF t.day < DaysIn(t.month, t.year)
         THEN AddDays([t EXCEPT !.day = @ + 1], n - 1)
    ELSE IF t.month < 12
         THEN AddDays([t EXCEPT !.day = 1, !.month = @ + 1], n - 1)
    ELSE AddDays([t EXCEPT !.day = 1, !.month = 1, !.year = @ + 1], n - 1)

Pad2(n) == << DigitChr(n \div 10), DigitChr(n % 10) >>

Pad4(n) == Pad2(n \div 100) \o Pad2(n % 100)

\* t.Format("02.01.2006 15:04:05")
FormatTime(t) ==
    Pad2(t.day) \o << "." >> \o Pad2(t.month) \o << "." >> \o Pad4(t.year)
    \o << " " >> \o Pad2(t.hour) \o << ":" >> \o Pad2(t.min) \o << ":" >> \o Pad2(t.sec)

RECURSIVE DigitsVal(_)
DigitsVal(s) ==
    IF Len(s) = 0 THEN 0
    ELSE (DigitsVal(SubSeq(s, 1, Len(s) - 1)) * 10) + DigitVal(s[Len(s)])

\* time.Parse("02.01.2006 15:04:05", s).  Day, month, minute and second
\* take exactly two digits, the year four, the hour one or two; each is
\* range-checked, the day against its month; any other text is an error.
\* (A fractional second after the seconds, which Parse also accepts, is
\* outside the inputs modelled.)  The zero Time is returned with an error.
ParseTime(s) ==
    LET hl == IF Len(s) >= 13 /\ IsDigit(s[13]) THEN 2 ELSE 1
        shape ==
            /\ Len(s) = 17 + hl
            /\ AllDigits(SubSeq(s, 1, 2)) /\ s[3] = "."
            /\ AllDigits(SubSeq(s, 4, 5)) /\ s[6] = "."
            /\ AllDigits(SubSeq(s, 7, 10)) /\ s[11] = " "
            /\ AllDigits(SubSeq(s, 12, 11 + hl)) /\ s[12 + hl] = ":"
            /\ AllDigits(SubSeq(s, 13 + hl, 14 + hl)) /\ s[15 + hl] = ":"
            /\ AllDigits(SubSeq(s, 16 + hl, 17 + hl))
        t == [day |-> DigitsVal(SubSeq(s, 1, 2)),
              month |-> DigitsVal(SubSeq(s, 4, 5)),
              year |-> DigitsVal(SubSeq(s, 7, 10)),
              hour |-> DigitsVal(SubSeq(s, 12, 11 + hl)),
              min |-> DigitsVal(SubSeq(s, 13 + hl, 14 + hl)),
              sec |-> DigitsVal(SubSeq(s, 16 + hl, 17 + hl))]
    IN  IF ~shape THEN [err |-> TRUE, val |-> ZeroTime]
        ELSE IF /\ t.month \in 1..12
                /\ t.day \in 1..DaysIn(t.month, t.year)
                /\ t.hour \in 0..23 /\ t.min \in 0..59 /\ t.sec \in 0..59
             THEN [err |-> FALSE, val |-> t]
        ELSE [err |-> TRUE, val |-> ZeroTime]

(***************************************************************************)
(* Errors, and the package's constants                                     *)
(***************************************************************************)

\* A Go error value: nil, errors.New / fmt.Errorf(msg), or
\* fmt.Errorf(msg + ": %v", cause).
Nil == [msg |-> "", cause |-> ""]
Error(msg) == [msg |-> msg, cause |-> ""]
Wrap(msg, e) == [msg |-> msg, cause |-> e.msg]

ePayURL == "https://www.epay.bg/"
ePayDemoURL == "https://demo.epay.bg/"

English == <<"e", "n">>
Bulgarian == <<"b", "g">>

EUR == <<"E", "U", "R">>
BGN == <<"B", "G", "N">>
USD == <<"U", "S", "D">>

Login == "paylogin"
Direct == "credit_paydirect"

ErrInvalidInvoice == Error("invalid invoice")

\* The empty Go string.
Empty == << >>

\* The keys of the request text.
KeyMIN == <<"M", "I", "N">>
KeyINVOICE == <<"I", "N", "V", "O", "I", "C", "E">>
KeyAMOUNT == <<"A", "M", "O", "U", "N", "T">>
KeyEXP_TIME == <<"E", "X", "P", "_", "T", "I", "M", "E">>
KeyCURRENCY == <<"C", "U", "R", "R", "E", "N", "C", "Y">>
KeyLANGUAGE == <<"L", "A", "N", "G", "U", "A", "G", "E">>
KeyDESCRIPTION == <<"D", "E", "S", "C", "R", "I", "P", "T", "I", "O", "N">>

(***************************************************************************)
(* crypto/hmac with sha1, hex-encoded.  The digest is symbolic: two        *)
(* digests are equal exactly when key and message are, which is the        *)
(* collision resistance the library relies on.  NoSum is the empty string  *)
(* in the place of a checksum.                                             *)
(***************************************************************************)

NoSum == [alg |-> "", key |-> "", msg |-> << >>]

HmacSha1Hex(secret, data) == [alg |-> "hmac-sha1", key |-> secret, msg |-> data]

(***************************************************************************)
(* PaymentRequest.encode                                                   *)
(***************************************************************************)

\* An amount is a number of thousandths (float64 in the code; the inputs
\* modelled are not half-way between two hundredths).
RECURSIVE FormatNat(_)
FormatNat(n) ==
    IF n < 10 THEN << DigitChr(n) >>
    ELSE FormatNat(n \div 10) \o << DigitChr(n % 10) >>

\* fmt's %.2f of an amount >= 0.
FormatAmount(a) ==
    LET cents == (a + 5) \div 10
    IN  FormatNat(cents \div 100) \o << "." >> \o Pad2(cents % 100)

\* fmt.Sprintf("KEY=%s\n", value)
Line(key, value) == key \o << "=" >> \o value \o << NL >>

\* The validation and the text that encode builds: the first invalid
\* mandatory field ends it with an error.
encodeText(p) ==
    IF p.cin = Empty THEN [err |-> Error("CIN is empty"), str |-> Empty]
    ELSE IF p.Invoice = Zero THEN [err |-> Error("Invoice is invalid"), str |-> Empty]
    ELSE IF p.Amount < 10 THEN [err |-> Error("Amount is invalid"), str |-> Empty]
    ELSE IF IsZero(p.ExpirationTime)
         THEN [err |-> Error("Expiration time is invalid"), str |-> Empty]
    ELSE [err |-> Nil,
          str |-> Line(KeyMIN, p.cin)
                  \o Line(KeyINVOICE, FormatUint(p.Invoice))
                  \o Line(KeyAMOUNT, FormatAmount(p.Amount))
                  \o Line(KeyEXP_TIME, FormatTime(p.ExpirationTime))
                  \o (IF p.Currency # Empty THEN Line(KeyCURRENCY, p.Currency) ELSE Empty)
                  \o (IF p.Language # Empty THEN Line(KeyLANGUAGE, p.Language) ELSE Empty)
                  \o (IF p.Description # Empty
                      THEN Line(KeyLANGUAGE, p.Description) ELSE Empty)]

\* An encode that returns nil where the validation failed.
encodeSwallowingError(p) ==
    LET t == encodeText(p)
    IN  IF t.err # Nil THEN [err |-> Nil, p |-> p]
        ELSE [err |-> Nil, p |-> [p EXCEPT !.encoded = EncodeToString(t.str)]]

\* encode: the error it returns and the request it leaves.
encode(p) ==
    LET t == encodeText(p)
    IN  IF t.err # Nil THEN [err |-> t.err, p |-> p]
        ELSE [err |-> Nil, p |-> [p EXCEPT !.encoded = EncodeToString(t.str)]]

\* A checksum computed without writing the encoded data to the HMAC.
signNothing(p, secret) == [p EXCEPT !.checksum = HmacSha1Hex(secret, Empty)]

\* The locked part of CalcChecksum: the checksum over the encoded data.
signEncoded(p, secret) == [p EXCEPT !.checksum = HmacSha1Hex(secret, p.encoded)]

(***************************************************************************)
(* PaymentOption and NewPaymentRequest                                     *)
(***************************************************************************)

NoReq == [nil |-> TRUE]

WithExpirationTime(t, p) ==
    IF IsZero(t) THEN [err |-> Error("invalid time"), p |-> p]
    ELSE [err |-> Nil, p |-> [p EXCEPT !.ExpirationTime = t]]

WithLanguage(l, p) == [err |-> Nil, p |-> [p EXCEPT !.Language = l]]

WithCurrency(c, p) == [err |-> Nil, p |-> [p EXCEPT !.Currency = c]]

WithPage(pg, p) == [err |-> Nil, p |-> [p EXCEPT !.page = pg]]

\* A PaymentOption value is the closure one of the With functions returned.
OptExpirationTime(t) == [opt |-> "WithExpirationTime", time |-> t]
OptLanguage(l) == [opt |-> "WithLanguage", lang |-> l]
OptCurrency(c) == [opt |-> "WithCurrency", cur |-> c]
OptPage(pg) == [opt |-> "WithPage", page |-> pg]

\* option(&p)
ApplyPaymentOption(o, p) ==
    IF o.opt = "WithExpirationTime" THEN WithExpirationTime(o.time, p)
    ELSE IF o.opt = "WithLanguage" THEN WithLanguage(o.lang, p)
    ELSE IF o.opt = "WithCurrency" THEN WithCurrency(o.cur, p)
    ELSE WithPage(o.page, p)

\* A loop that goes on after an option failed and returns the last error.
RECURSIVE RunPaymentOptionsToTheEnd(_, _, _)
RunPaymentOptionsToTheEnd(p, options, n) ==
    IF Len(options) = 0 THEN [err |-> Nil, p |-> p, invoked |-> n]
    ELSE LET r == ApplyPaymentOption(Head(options), p)
             rest == RunPaymentOptionsToTheEnd(r.p, Tail(options), n + 1)
         IN  IF rest.err # Nil \/ r.err = Nil THEN rest
             ELSE [err |-> r.err, p |-> rest.p, invoked |-> rest.invoked]

\* The loop over the options: the request, the first error, and the
\* number of options invoked.
RECURSIVE RunPaymentOptions(_, _, _)
RunPaymentOptions(p, options, n) ==
    IF Len(options) = 0 THEN [err |-> Nil, p |-> p, invoked |-> n]
    ELSE LET r == ApplyPaymentOption(Head(options), p)
         IN  IF r.err # Nil THEN [err |-> r.err, p |-> r.p, invoked |-> n + 1]
             ELSE RunPaymentOptions(r.p, Tail(options), n + 1)

\* api.NewPaymentRequest(amount, description, invoice, options...) called
\* at time now: the request (NoReq for nil) and the error.
NewPaymentRequest(a, amount, description, invoice, options, now) ==
    LET p == [page |-> "credit_paydirect",
              cin |-> a.cin,
              url |-> a.url,
              ExpirationTime |-> AddDays(now, 7),
              Language |-> English,
              Currency |-> EUR,
              Amount |-> amount,
              Description |-> description,
              Invoice |-> invoice,
              encoded |-> Empty,
              checksum |-> NoSum]
        r == RunPaymentOptions(p, options, 0)
    IN  IF r.err # Nil THEN [req |-> NoReq, err |-> r.err, invoked |-> r.invoked]
        ELSE [req |-> r.p, err |-> Nil, invoked |-> r.invoked]

(***************************************************************************)
(* Option and New                                                          *)
(***************************************************************************)

NoAPI == [nil |-> TRUE]

\* A WithDemoURL that leaves the URL as it is.
WithDemoURLUnset(a) == [err |-> Nil, api |-> a]

WithDemoURL(a) == [err |-> Nil, api |-> [a EXCEPT !.url = ePayDemoURL]]

\* An Option the caller wrote that returns an error (the package's own
\* option never does).
CallerOptionErr(a) == [err |-> Error("caller option"), api |-> a]

\* option(&api)
ApplyOption(o, a) ==
    IF o = "WithDemoURL" THEN WithDemoURL(a) ELSE CallerOptionErr(a)

RECURSIVE RunOptions(_, _)
RunOptions(a, options) ==
    IF Len(options) = 0 THEN [err |-> Nil, api |-> a]
    ELSE LET r == ApplyOption(Head(options), a)
         IN  IF r.err # Nil THEN [err |-> Wrap("option error", r.err), api |-> r.api]
             ELSE RunOptions(r.api, Tail(options))

\* New(cin, secret, options...): the API (NoAPI for nil) and the error.
New(cin, secret, options) ==
    LET a == [cin |-> cin, secret |-> secret, url |-> ePayURL,
              defaultLanguage |-> Empty]
        r == RunOptions(a, options)
    IN  IF r.err # Nil THEN [api |-> NoAPI, err |-> r.err]
        ELSE [api |-> r.api, err |-> Nil]

(***************************************************************************)
(* Bounds and inputs                                                       *)
(***************************************************************************)

\* The longest list of options passed to New or NewPaymentRequest.
MaxOptions == 2

\* The goroutines sharing one PaymentRequest.
NumThreads == 2

\* The calls made on the shared PaymentRequest, field assignments included.
MaxCalls == 3

Threads == 1..NumThreads

SeqsUpTo(S, n) == UNION {[1..k -> S] : k \in 0..n}

Cins == {Empty, <<"1", "2", "3">>}
Secrets == {"s1", "s2"}
Amounts == {0, 9, 10, 12500}
Descriptions == {Empty, <<"t", "e", "a">>}
Invoices == {Zero, <<"5", "5">>}

Time1 == [year |-> 2024, month |-> 2, day |-> 26, hour |-> 9, min |-> 5, sec |-> 0]
Time2 == [year |-> 2023, month |-> 12, day |-> 28, hour |-> 23, min |-> 59, sec |-> 59]
Nows == {Time1, Time2}

Options == {"WithDemoURL", "CallerOptionErr"}

PaymentOptions ==
    {OptExpirationTime(ZeroTime), OptExpirationTime(Time1),
     OptLanguage(Bulgarian), OptLanguage(English), OptLanguage(Empty),
     OptCurrency(BGN), OptCurrency(Empty), OptPage(Login)}

(***************************************************************************)
(* State                                                                   *)
(***************************************************************************)

VARIABLES
    api,        \* the *API New returned, NoAPI for nil
    apiErr,     \* the error New returned
    newArgs,    \* the arguments of the call of New
    req,        \* the *PaymentRequest, NoReq for nil
    reqErr,     \* the error NewPaymentRequest returned
    nprArgs,    \* the arguments of the call of NewPaymentRequest
    invoked,    \* the options NewPaymentRequest invoked
    mu,         \* p.mu: the goroutine holding the lock, 0 when free
    pc,         \* where each goroutine stands in its call
    local,      \* each goroutine's call: its arguments and results, whether
                \* encoded was empty when it began (emptyAtCall), whether it
                \* ran encode (ranEncode), and whether no other call has
                \* overlapped it (solo)
    ncalls,     \* the calls made on the request so far
    access,     \* the last access to p.encoded or p.checksum
    cb,         \* the callback being handled by PaymentCallbackHandler
    rh          \* the request PaymentRequestHandler handled, and its outcome

vars == << api, apiErr, newArgs, req, reqErr, nprArgs, invoked, mu, pc, local,
           ncalls, access, cb, rh >>

NoArgs == [none |-> TRUE]

NoAccess == [thread |-> 0, field |-> "", kind |-> "", locked |-> TRUE, racing |-> FALSE]

IdleLocal ==
    [op |-> "", secret |-> "", err |-> Nil, str |-> Empty, sum |-> NoSum,
     ranEncode |-> FALSE, solo |-> TRUE, emptyAtCall |-> FALSE]

buildVars == << api, apiErr, newArgs, req, reqErr, nprArgs, invoked >>
threadVars == << mu, pc, local, ncalls, access >>

ThreadsIdle ==
    /\ mu = 0
    /\ pc = [t \in Threads |-> "idle"]
    /\ local = [t \in Threads |-> IdleLocal]
    /\ ncalls = 0
    /\ access = NoAccess

(***************************************************************************)
(* PaymentCallbackHandler                                                  *)
(***************************************************************************)

\* The most records in a callback payload.
MaxParts == 2

KeySTATUS == <<"S", "T", "A", "T", "U", "S">>
KeyPAY_TIME == <<"P", "A", "Y", "_", "T", "I", "M", "E">>
KeySTAN == <<"S", "T", "A", "N">>
KeyBCODE == <<"B", "C", "O", "D", "E">>

StatusOK == <<"O", "K">>
StatusNO == <<"N", "O">>
StatusERR == <<"E", "R", "R">>

MsgInvalidMethod == <<"i", "n", "v", "a", "l", "i", "d", " ", "m", "e", "t", "h", "o", "d">>
MsgInvalidChecksum == <<"i", "n", "v", "a", "l", "i", "d", " ", "c", "h", "e", "c", "k", "s", "u", "m", " ">>
MsgDecodingError == <<"d", "e", "c", "o", "d", "i", "n", "g", " ", "e", "r", "r", "o", "r", ":", " ">>
MsgParseForm == <<"p", "a", "r", "s", "e", " ", "f", "o", "r", "m">>

\* Payment{}
ZeroPayment ==
    [Invoice |-> Zero, Status |-> Empty, PayDate |-> ZeroTime, Stan |-> SignedZero,
     Bcode |-> Empty]

\* The records a payload is made of.
CallbackLines ==
    { <<"I", "N", "V", "O", "I", "C", "E", "=", "5", "5">>,
      <<"I", "N", "V", "O", "I", "C", "E", "=", "a", "b", "c">>,
      <<"I", "N", "V", "O", "I", "C", "E">>,
      <<"I", "N", "V", "O", "I", "C", "E", "=", "9", "9", "9", "9", "9", "9", "9", "9", "9", "9", "9", "9", "9", "9", "9", "9", "9", "9", "9", "9">>,
      <<"S", "T", "A", "T", "U", "S", "=", "P", "A", "I", "D">>,
      <<"P", "A", "Y", "_", "T", "I", "M", "E", "=", "0", "5", ".", "0", "3", ".", "2", "0", "2", "4", " ", "1", "4", ":", "3", "0", ":", "0", "0">>,
      <<"P", "A", "Y", "_", "T", "I", "M", "E", "=", "b", "a", "d">>,
      <<"S", "T", "A", "N", "=", "-", "7">>,
      <<"S", "T", "A", "N", "=", "x">>,
      <<"B", "C", "O", "D", "E", "=", "A", "=", "B">>,
      <<"B", "C", "O", "D", "E">>,
      <<"M", "I", "N", "=", "1", "2", "3">>,
      Empty }

\* strings.Join(lines, "\n")
RECURSIVE Join(_)
Join(lines) ==
    IF Len(lines) = 0 THEN Empty
    ELSE IF Len(lines) = 1 THEN lines[1]
    ELSE lines[1] \o << NL >> \o Join(Tail(lines))

Payloads == {Join(ls) : ls \in SeqsUpTo(CallbackLines, MaxParts)}

\* The values of the form field "encoded": payloads in base64, and two
\* strings that are not base64.
EncodedInputs ==
    {EncodeToString(d) : d \in Payloads} \cup {<<"!", "!", "!", "!">>, <<"Q", "Q">>}

\* The values of the form field "checksum" tried with an encoded value.
ChecksumInputs(encoded) ==
    {HmacSha1Hex(s, encoded) : s \in Secrets}
    \cup {HmacSha1Hex(s, Empty) : s \in Secrets} \cup {NoSum}

\* What the PaymentHandlerFunc may return.
HandlerResults == {Nil, ErrInvalidInvoice, Error("database down")}

\* The reply: the status code, the body written, and for http.Error the
\* value formatted into the message (the body is then the message text,
\* that value and a newline).
NoReply == [code |-> 0, body |-> Empty, detail |-> NoSum]
HttpError(msg, detail, code) == [code |-> code, body |-> msg, detail |-> detail]

\* fmt.Sprintf("INVOICE=%d:STATUS=%s\n", invoice, status)
Answer(invoice, status) ==
    KeyINVOICE \o << "=" >> \o FormatUint(invoice) \o << ":" >> \o KeySTATUS
    \o << "=" >> \o status \o << NL >>

\* A comparison that only rejects a missing checksum.
ChecksumMismatchOnlyEmpty(secret, encoded, checksum) == checksum = NoSum

\* checksum != expected
ChecksumMismatch(secret, encoded, checksum) ==
    checksum # HmacSha1Hex(secret, encoded)

\* One turn of the loop over the parts.  e[1] of a part without "=" is an
\* index out of range: the goroutine panics.
ParsePart(payment, status, part) ==
    LET e == Split(part, "=")
        key == e[1]
        known == key \in {KeyINVOICE, KeySTATUS, KeyPAY_TIME, KeySTAN, KeyBCODE}
    IN  IF ~known THEN [panic |-> FALSE, payment |-> payment, status |-> status]
        ELSE IF Len(e) < 2 THEN [panic |-> TRUE, payment |-> payment, status |-> status]
        ELSE IF key = KeyINVOICE THEN
            LET r == ParseUint(e[2])
            IN  [panic |-> FALSE,
                 payment |-> [payment EXCEPT !.Invoice = r.val],
                 status |-> IF r.err THEN StatusERR ELSE status]
        ELSE IF key = KeySTATUS THEN
            [panic |-> FALSE, payment |-> [payment EXCEPT !.Status = e[2]],
             status |-> status]
        ELSE IF key = KeyPAY_TIME THEN
            LET r == ParseTime(e[2])
            IN  [panic |-> FALSE,
                 payment |-> [payment EXCEPT !.PayDate = r.val],
                 status |-> IF r.err THEN StatusERR ELSE status]
        ELSE IF key = KeySTAN THEN
            LET r == ParseInt(e[2])
            IN  [panic |-> FALSE,
                 payment |-> [payment EXCEPT !.Stan = r.val],
                 status |-> IF r.err THEN StatusERR ELSE status]
        ELSE [panic |-> FALSE, payment |-> [payment EXCEPT !.Bcode = e[2]],
              status |-> status]

\* A status that is left empty when the handler returns nil.
HandlerStatusUnsetOnSuccess(err) ==
    IF err # Nil
    THEN (IF err = ErrInvalidInvoice THEN StatusNO ELSE StatusERR)
    ELSE Empty

\* The status the handler's result is answered with.
HandlerStatus(err) ==
    IF err # Nil
    THEN (IF err = ErrInvalidInvoice THEN StatusNO ELSE StatusERR)
    ELSE StatusOK

IdleCb ==
    [pc |-> "idle", method |-> "", formErr |-> FALSE, encoded |-> Empty,
     checksum |-> NoSum, data |-> Empty, parts |-> << >>, i |-> 1,
     payment |-> ZeroPayment, status |-> Empty, calls |-> 0, arg |-> ZeroPayment,
     ret |-> Nil, reply |-> NoReply, replies |-> 0]

\* No request was handled by PaymentRequestHandler yet.
IdleRh == [called |-> FALSE]

(***************************************************************************)
(* Building: New, then NewPaymentRequest                                   *)
(***************************************************************************)

InitBuild ==
    /\ api = NoAPI /\ apiErr = Nil /\ newArgs = NoArgs
    /\ req = NoReq /\ reqErr = Nil /\ nprArgs = NoArgs /\ invoked = 0
    /\ ThreadsIdle
    /\ cb = IdleCb
    /\ rh = IdleRh

CallNew ==
    /\ newArgs = NoArgs
    /\ \E cin \in Cins, secret \in Secrets, options \in SeqsUpTo(Options, MaxOptions) :
        LET r == New(cin, secret, options)
        IN  /\ api' = r.api
            /\ apiErr' = r.err
            /\ newArgs' = [cin |-> cin, secret |-> secret, options |-> options]
    /\ UNCHANGED << req, reqErr, nprArgs, invoked, threadVars, cb, rh >>

CallNewPaymentRequest ==
    /\ api # NoAPI
    /\ nprArgs = NoArgs
    /\ \E amount \in Amounts, description \in Descriptions, invoice \in Invoices,
          options \in SeqsUpTo(PaymentOptions, MaxOptions), now \in Nows :
        LET r == NewPaymentRequest(api, amount, description, invoice, options, now)
        IN  /\ req' = r.req
            /\ reqErr' = r.err
            /\ invoked' = r.invoked
            /\ nprArgs' = [amount |-> amount, description |-> description,
                           invoice |-> invoice, options |-> options, now |-> now]
    /\ UNCHANGED << api, apiErr, newArgs, threadVars, cb, rh >>

NextBuild == CallNew \/ CallNewPaymentRequest

SpecBuild == InitBuild /\ [][NextBuild]_vars

(***************************************************************************)
(* Goroutines calling CalcChecksum, Encoded and Checksum on one request,   *)
(* and its owner assigning the exported fields between calls               *)
(***************************************************************************)

\* What a read that races with a write may return besides the old value.
Torn == << "torn" >>
TornSum == [alg |-> "torn", key |-> "", msg |-> << >>]

\* The API the shared request is built with.
RequestAPIs == {New(cin, "s1", << >>).api : cin \in Cins}

\* The requests NewPaymentRequest hands out.
BuiltRequests ==
    {NewPaymentRequest(a, amount, description, invoice, options, Time1).req :
        a \in RequestAPIs, amount \in {12500}, description \in Descriptions \ {Empty},
        invoice \in {<<"5", "5">>},
        options \in {<< >>}}

InitRequest ==
    /\ api \in RequestAPIs /\ apiErr = Nil /\ newArgs = NoArgs
    /\ req \in {r \in BuiltRequests : r.cin = api.cin}
    /\ reqErr = Nil /\ nprArgs = NoArgs /\ invoked = 0
    /\ ThreadsIdle
    /\ cb = IdleCb
    /\ rh = IdleRh

\* Another goroutine holds the lock and is about to write the field.
Racing(t, field) ==
    \E u \in Threads \ {t} :
        \/ field = "encoded" /\ pc[u] = "enc_body" /\ encodeText(req).err = Nil
        \/ field = "checksum" /\ pc[u] = "cc_body"

Busy(t) == pc[t] \notin {"idle", "ret"}

\* A call starts: the calls in flight are no longer alone.
StartCall(t, l) ==
    /\ ncalls < MaxCalls
    /\ ncalls' = ncalls + 1
    /\ local' = [u \in Threads |->
                    IF u = t THEN [l EXCEPT !.solo = \A v \in Threads \ {t} : ~Busy(v)]
                    ELSE IF pc[u] = "idle" THEN local[u]
                    ELSE [local[u] EXCEPT !.solo = FALSE]]

\* p.CalcChecksum(secret) is called.
CallCalcChecksum(t) ==
    /\ pc[t] = "idle"
    /\ \E secret \in Secrets :
        StartCall(t, [IdleLocal EXCEPT !.op = "CalcChecksum", !.secret = secret,
                                       !.emptyAtCall = (req.encoded = Empty)])
    /\ pc' = [pc EXCEPT ![t] = "cc_check"]
    /\ UNCHANGED << buildVars, mu, access, cb, rh >>

\* if p.encoded == "": read without the lock.
CheckEncoded(t) ==
    /\ pc[t] = "cc_check"
    /\ \E isEmpty \in (IF Racing(t, "encoded") THEN BOOLEAN ELSE {req.encoded = Empty}) :
        pc' = [pc EXCEPT ![t] = IF isEmpty THEN "enc_lock" ELSE "cc_lock"]
    /\ access' = [thread |-> t, field |-> "encoded", kind |-> "read",
                  locked |-> mu = t, racing |-> Racing(t, "encoded")]
    /\ UNCHANGED << buildVars, mu, local, ncalls, cb, rh >>

\* encode: p.mu.Lock()
EncodeLock(t) ==
    /\ pc[t] = "enc_lock"
    /\ mu = 0
    /\ mu' = t
    /\ pc' = [pc EXCEPT ![t] = "enc_body"]
    /\ UNCHANGED << buildVars, local, ncalls, access, cb, rh >>

\* encode under the lock, its deferred Unlock, and CalcChecksum's return
\* of the wrapped error.
EncodeBody(t) ==
    /\ pc[t] = "enc_body"
    /\ LET r == encode(req)
       IN  /\ req' = r.p
           /\ IF r.err # Nil
              THEN /\ local' = [local EXCEPT ![t].err = Wrap("encoding error", r.err)]
                   /\ pc' = [pc EXCEPT ![t] = "ret"]
                   /\ UNCHANGED access
              ELSE /\ local' = [local EXCEPT ![t].ranEncode = TRUE]
                   /\ pc' = [pc EXCEPT ![t] = "cc_lock"]
                   /\ access' = [thread |-> t, field |-> "encoded", kind |-> "write",
                                 locked |-> mu = t, racing |-> FALSE]
    /\ mu' = 0
    /\ UNCHANGED << api, apiErr, newArgs, reqErr, nprArgs, invoked, ncalls, cb, rh >>

\* CalcChecksum: p.mu.Lock()
ChecksumLock(t) ==
    /\ pc[t] = "cc_lock"
    /\ mu = 0
    /\ mu' = t
    /\ pc' = [pc EXCEPT ![t] = "cc_body"]
    /\ UNCHANGED << buildVars, local, ncalls, access, cb, rh >>

\* The checksum under the lock, the deferred Unlock and the return of nil.
ChecksumBody(t) ==
    /\ pc[t] = "cc_body"
    /\ req' = signEncoded(req, local[t].secret)
    /\ access' = [thread |-> t, field |-> "checksum", kind |-> "write",
                  locked |-> mu = t, racing |-> FALSE]
    /\ mu' = 0
    /\ pc' = [pc EXCEPT ![t] = "ret"]
    /\ UNCHANGED << api, apiErr, newArgs, reqErr, nprArgs, invoked, local, ncalls, cb, rh >>

\* p.Encoded(): read without the lock.
CallEncoded(t) ==
    /\ pc[t] = "idle"
    /\ \E v \in (IF Racing(t, "encoded") THEN {req.encoded, Torn} ELSE {req.encoded}) :
        StartCall(t, [IdleLocal EXCEPT !.op = "Encoded", !.str = v])
    /\ access' = [thread |-> t, field |-> "encoded", kind |-> "read",
                  locked |-> mu = t, racing |-> Racing(t, "encoded")]
    /\ pc' = [pc EXCEPT ![t] = "ret"]
    /\ UNCHANGED << buildVars, mu, cb, rh >>

\* p.Checksum(): read without the lock.
CallChecksum(t) ==
    /\ pc[t] = "idle"
    /\ \E v \in (IF Racing(t, "checksum") THEN {req.checksum, TornSum} ELSE {req.checksum}) :
        StartCall(t, [IdleLocal EXCEPT !.op = "Checksum", !.sum = v])
    /\ access' = [thread |-> t, field |-> "checksum", kind |-> "read",
                  locked |-> mu = t, racing |-> Racing(t, "checksum")]
    /\ pc' = [pc EXCEPT ![t] = "ret"]
    /\ UNCHANGED << buildVars, mu, cb, rh >>

\* The caller has the result and may call again.
Return(t) ==
    /\ pc[t] = "ret"
    /\ pc' = [pc EXCEPT ![t] = "idle"]
    /\ local' = [local EXCEPT ![t] = IdleLocal]
    /\ UNCHANGED << buildVars, mu, ncalls, access, cb, rh >>

\* The owner assigns an exported field while no call is in flight.
SetField ==
    /\ \A t \in Threads : pc[t] = "idle"
    /\ ncalls < MaxCalls
    /\ ncalls' = ncalls + 1
    /\ \/ \E v \in {9, 700} : req' = [req EXCEPT !.Amount = v]
       \/ \E v \in {Zero} : req' = [req EXCEPT !.Invoice = v]
       \/ \E v \in {Empty} : req' = [req EXCEPT !.Description = v]
       \/ \E v \in {ZeroTime} : req' = [req EXCEPT !.ExpirationTime = v]
       \/ \E v \in {Empty} : req' = [req EXCEPT !.Currency = v]
       \/ \E v \in {Empty} : req' = [req EXCEPT !.Language = v]
    /\ UNCHANGED << api, apiErr, newArgs, reqErr, nprArgs, invoked, mu, pc, local,
                    access, cb, rh >>

NextRequest ==
    \/ \E t \in Threads :
        \/ CallCalcChecksum(t)
        \/ CheckEncoded(t)
        \/ EncodeLock(t)
        \/ EncodeBody(t)
        \/ ChecksumLock(t)
        \/ ChecksumBody(t)
        \/ CallEncoded(t)
        \/ CallChecksum(t)
        \/ Return(t)
    \/ SetField

SpecRequest == InitRequest /\ [][NextRequest]_vars

(***************************************************************************)
(* The steps of the handler PaymentCallbackHandler returns                 *)
(***************************************************************************)

\* A callback request arrives (each callback is handled on its own: the
\* handler keeps nothing from one request to the next).
CbReceive ==
    /\ cb.pc = "idle"
    /\ \E method \in {"POST", "GET"}, formErr \in BOOLEAN, encoded \in EncodedInputs :
        \E checksum \in ChecksumInputs(encoded) :
            cb' = [IdleCb EXCEPT !.pc = "received", !.method = method,
                                 !.formErr = formErr, !.encoded = encoded,
                                 !.checksum = checksum]
    /\ UNCHANGED << buildVars, threadVars, rh >>

\* The method check, ParseForm and the two form values.
CbParseRequest ==
    /\ cb.pc = "received"
    /\ cb' = IF cb.method # "POST"
             THEN [cb EXCEPT !.pc = "replied", !.replies = @ + 1,
                             !.reply = HttpError(MsgInvalidMethod, NoSum, 400)]
             ELSE IF cb.formErr
             THEN [cb EXCEPT !.pc = "replied", !.replies = @ + 1,
                             !.reply = HttpError(MsgParseForm, NoSum, 500)]
             ELSE [cb EXCEPT !.pc = "formread"]
    /\ UNCHANGED << buildVars, threadVars, rh >>

\* A comparison step that answers a mismatch in the wire format.
CbVerifyChecksumAnswering ==
    /\ cb.pc = "formread"
    /\ cb' = IF ChecksumMismatch(api.secret, cb.encoded, cb.checksum)
             THEN [cb EXCEPT !.pc = "replied", !.replies = @ + 1,
                             !.reply = [code |-> 200,
                                        body |-> Answer(Zero, StatusERR),
                                        detail |-> NoSum]]
             ELSE [cb EXCEPT !.pc = "verified"]
    /\ UNCHANGED << buildVars, threadVars, rh >>

\* The expected checksum and the comparison.
CbVerifyChecksum ==
    /\ cb.pc = "formread"
    /\ cb' = IF ChecksumMismatch(api.secret, cb.encoded, cb.checksum)
             THEN [cb EXCEPT !.pc = "replied", !.replies = @ + 1,
                             !.reply = HttpError(MsgInvalidChecksum, cb.checksum, 400)]
             ELSE [cb EXCEPT !.pc = "verified"]
    /\ UNCHANGED << buildVars, threadVars, rh >>

\* The base64 decoding and the split on newlines.
CbDecode ==
    /\ cb.pc = "verified"
    /\ LET d == DecodeString(cb.encoded)
       IN  cb' = IF d.err
                 THEN [cb EXCEPT !.pc = "replied", !.replies = @ + 1,
                                 !.reply = HttpError(MsgDecodingError, NoSum, 400)]
                 ELSE [cb EXCEPT !.pc = "parsing", !.data = d.data,
                                 !.parts = Split(d.data, NL), !.i = 1,
                                 !.payment = ZeroPayment, !.status = Empty]
    /\ UNCHANGED << buildVars, threadVars, rh >>

\* The loop over the parts, one part a step.
CbParsePart ==
    /\ cb.pc = "parsing"
    /\ LET r == ParsePart(cb.payment, cb.status, cb.parts[cb.i])
       IN  cb' = IF r.panic THEN [cb EXCEPT !.pc = "panicked"]
                 ELSE [cb EXCEPT !.payment = r.payment, !.status = r.status,
                                 !.i = @ + 1,
                                 !.pc = IF cb.i = Len(cb.parts) THEN "parsed" ELSE "parsing"]
    /\ UNCHANGED << buildVars, threadVars, rh >>

\* The call of the PaymentHandlerFunc, when no record failed to parse.
CbInvoke ==
    /\ cb.pc = "parsed"
    /\ cb.status # StatusERR
    /\ \E err \in HandlerResults :
        cb' = [cb EXCEPT !.pc = "handled", !.calls = @ + 1, !.arg = cb.payment,
                         !.ret = err, !.status = HandlerStatus(err)]
    /\ UNCHANGED << buildVars, threadVars, rh >>

\* The answer to the ePay server.
CbReply ==
    /\ \/ cb.pc = "handled"
       \/ cb.pc = "parsed" /\ cb.status = StatusERR
    /\ cb' = [cb EXCEPT !.pc = "replied", !.replies = @ + 1,
                        !.reply = [code |-> 200,
                                   body |-> Answer(cb.payment.Invoice, cb.status),
                                   detail |-> NoSum]]
    /\ UNCHANGED << buildVars, threadVars, rh >>

InitCallback ==
    /\ api \in {New(<<"1", "2", "3">>, secret, << >>).api : secret \in Secrets}
    /\ apiErr = Nil /\ newArgs = NoArgs
    /\ req = NoReq /\ reqErr = Nil /\ nprArgs = NoArgs /\ invoked = 0
    /\ ThreadsIdle
    /\ cb = IdleCb
    /\ rh = IdleRh

NextCallback ==
    \/ CbReceive
    \/ CbParseRequest
    \/ CbVerifyChecksum
    \/ CbDecode
    \/ CbParsePart
    \/ CbInvoke
    \/ CbReply

SpecCallback == InitCallback /\ [][NextCallback]_vars

(***************************************************************************)
(* PaymentRequestHandler                                                   *)
(***************************************************************************)

\* strings.ToLower, on ASCII.
ToLower(s) ==
    [i \in 1..Len(s) |->
        IF Ord(s[i]) >= 65 /\ Ord(s[i]) <= 90 THEN Chr(Ord(s[i]) + 32) ELSE s[i]]

\* strings.Trim(s, " ")
Trim(s) ==
    LET kept == {i \in 1..Len(s) : s[i] # " "}
    IN  IF kept = {} THEN Empty
        ELSE SubSeq(s, CHOOSE i \in kept : \A j \in kept : i <= j,
                       CHOOSE i \in kept : \A j \in kept : j <= i)

\* strconv.ParseFloat(s, 64) on plain decimals: digits with at most one
\* point and at most three decimals, the value in thousandths; any other
\* text is an error with value 0.  (Signs, exponents, hexadecimal, inf and
\* nan, which ParseFloat also accepts, are outside the inputs modelled.)
ParseFloat(s) ==
    LET point == IndexOf(s, ".")
        whole == IF point = 0 THEN s ELSE SubSeq(s, 1, point - 1)
        frac == IF point = 0 THEN Empty ELSE SubSeq(s, point + 1, Len(s))
        frac3 == frac \o SubSeq(<<"0", "0", "0">>, 1, 3 - Len(frac))
    IN  IF /\ Len(whole) + Len(frac) > 0
           /\ Len(frac) <= 3
           /\ AllDigits(whole)
           /\ AllDigits(frac)
        THEN [err |-> FALSE, val |-> (DigitsVal(whole) * 1000) + DigitsVal(frac3)]
        ELSE [err |-> TRUE, val |-> 0]

\* LanguageFromString(l): the results the call may give.  A case of the
\* switch without statements does not fall through to the next one and
\* the function has no return after the switch, so for "english", "eng",
\* "bulgarian" and "bul" the result is either the zero values or what the
\* next case with a return gives.
LanguageFromString(l) ==
    LET lang == Trim(ToLower(l))
    IN  IF lang = <<"e", "n">> THEN {[lang |-> English, err |-> Nil]}
        ELSE IF lang = <<"b", "g">> THEN {[lang |-> Bulgarian, err |-> Nil]}
        ELSE IF lang \in {<<"e", "n", "g", "l", "i", "s", "h">>, <<"e", "n", "g">>}
             THEN {[lang |-> Empty, err |-> Nil], [lang |-> English, err |-> Nil]}
        ELSE IF lang \in {<<"b", "u", "l", "g", "a", "r", "i", "a", "n">>,
                          <<"b", "u", "l">>}
             THEN {[lang |-> Empty, err |-> Nil], [lang |-> Bulgarian, err |-> Nil]}
        ELSE {[lang |-> Empty, err |-> Error("unsupported language")]}

\* CurrencyFromString(c): the results the call may give, "euro" being a
\* case without statements.
CurrencyFromString(c) ==
    LET curr == Trim(ToLower(c))
    IN  IF curr = <<"e", "u", "r">> THEN {[cur |-> EUR, err |-> Nil]}
        ELSE IF curr = <<"b", "g", "n">> THEN {[cur |-> BGN, err |-> Nil]}
        ELSE IF curr = <<"u", "s", "d">> THEN {[cur |-> USD, err |-> Nil]}
        ELSE IF curr = <<"e", "u", "r", "o">>
             THEN {[cur |-> Empty, err |-> Nil], [cur |-> EUR, err |-> Nil]}
        ELSE {[cur |-> Empty, err |-> Error("unsupported currrency")]}

\* p.CalcChecksum(secret) run by one goroutine from call to return.
CalcChecksum(p, secret) ==
    IF p.encoded = Empty
    THEN LET e == encode(p)
         IN  IF e.err # Nil
             THEN [err |-> Wrap("encoding error", e.err), p |-> e.p]
             ELSE [err |-> Nil, p |-> signEncoded(e.p, secret)]
    ELSE [err |-> Nil, p |-> signEncoded(p, secret)]

\* The handler answered with http.Error(w, msg, 500) and returned.
Rejected(form, msg) ==
    [called |-> TRUE, form |-> form, code |-> 500, msg |-> msg, built |-> FALSE,
     rendered |-> FALSE, options |-> << >>, data |-> NoReq, dataErr |-> Nil,
     sumErr |-> Nil]

\* The options after the switch on the form value "type"; the append of
\* WithLanguage(lang) before it is not assigned and leaves options empty.
TypeOptions(options, type) ==
    IF type = Empty THEN [err |-> FALSE, options |-> options]
    ELSE IF type = <<"d", "i", "r", "e", "c", "t">>
         THEN [err |-> FALSE, options |-> Append(options, OptPage(Direct))]
    ELSE IF type = <<"r", "e", "q", "u", "e", "s", "t">>
         THEN [err |-> FALSE, options |-> Append(options, OptPage(Login))]
    ELSE [err |-> TRUE, options |-> options]

\* api.PaymentRequestHandler(w, r) for the form values of r, lr and cr
\* being what LanguageFromString and CurrencyFromString return, the
\* template failing to load (tplErr) or to execute (execErr).
PaymentRequestHandler(a, form, lr, cr, now, tplErr, execErr) ==
    LET amount == ParseFloat(form.amount)
        invoice == ParseUint(form.invoice)
        afterLanguage == << >>
        afterCurrency == Append(afterLanguage, OptCurrency(cr.cur))
        typed == TypeOptions(afterCurrency, ToLower(form.type))
        built == NewPaymentRequest(a, amount.val, form.description, invoice.val,
                                   typed.options, now)
        signed == CalcChecksum(built.req, a.secret)
    IN  IF amount.err THEN Rejected(form, "amount is invalid or missing")
        ELSE IF form.description = Empty THEN Rejected(form, "description is empty")
        ELSE IF invoice.err THEN Rejected(form, "invoice is invalid or missing")
        ELSE IF lr.err # Nil THEN Rejected(form, "invalid language")
        ELSE IF cr.err # Nil THEN Rejected(form, "invalid currency")
        ELSE IF typed.err THEN Rejected(form, "invalid type")
        ELSE [called |-> TRUE, form |-> form,
              code |-> IF tplErr \/ execErr THEN 500 ELSE 200,
              msg |-> IF tplErr THEN "template not loaded"
                      ELSE IF execErr THEN "template not executed" ELSE "",
              built |-> TRUE,
              rendered |-> ~tplErr /\ ~execErr,
              options |-> typed.options,
              data |-> signed.p,
              dataErr |-> built.err,
              sumErr |-> signed.err]

\* The form values handled.
FormAmounts == {<<"1", "2", ".", "5">>, <<"0">>, <<"a", "b", "c">>}
FormDescriptions == {Empty, <<"t", "e", "a">>}
FormInvoices == {<<"5", "5">>, <<"0">>, <<"x">>}
FormLanguages == {Empty, <<"b", "g">>, <<" ", "B", "G">>, <<"b", "u", "l">>, <<"f", "r">>}
FormCurrencies == {Empty, <<"b", "g", "n">>, <<"e", "u", "r", "o">>, <<"x", "y", "z">>}
FormTypes ==
    {Empty, <<"d", "i", "r", "e", "c", "t">>, <<"l", "o", "g", "i", "n">>,
     <<"r", "e", "q", "u", "e", "s", "t">>, <<"c", "a", "r", "d">>}

\* A request arrives and is handled to its answer.
HandlePaymentRequest ==
    /\ ~rh.called
    /\ \E amount \in FormAmounts, description \in FormDescriptions,
          invoice \in FormInvoices, language \in FormLanguages,
          currency \in FormCurrencies, type \in FormTypes,
          tplErr \in BOOLEAN, execErr \in BOOLEAN :
        LET form == [amount |-> amount, description |-> description,
                     invoice |-> invoice, language |-> language,
                     currency |-> currency, type |-> type]
            l == IF language = Empty THEN <<"e", "n">> ELSE language
            c == IF currency = Empty THEN <<"e", "u", "r">> ELSE currency
        IN  \E lr \in LanguageFromString(l), cr \in CurrencyFromString(c) :
                rh' = PaymentRequestHandler(api, form, lr, cr, Time1, tplErr, execErr)
    /\ UNCHANGED << buildVars, threadVars, cb >>

InitHandler ==
    /\ api \in RequestAPIs /\ apiErr = Nil /\ newArgs = NoArgs
    /\ req = NoReq /\ reqErr = Nil /\ nprArgs = NoArgs /\ invoked = 0
    /\ ThreadsIdle
    /\ cb = IdleCb
    /\ rh = IdleRh

NextHandler == HandlePaymentRequest

SpecHandler == InitHandler /\ [][NextHandler]_vars

(***************************************************************************)
(* Properties of PaymentCallbackHandler, under SpecCallback                *)
(***************************************************************************)

\* The callback got past the method check and ParseForm.
CbFormRead == cb.pc # "idle" /\ cb.method = "POST" /\ ~cb.formErr

\* The checksum field is not the HMAC of the encoded field under the
\* API's secret.
CbTampered == cb.checksum # HmacSha1Hex(api.secret, cb.encoded)

\* The invoice numbers a reply to the modelled payloads can carry.
ReplyInvoices == {Zero, <<"5", "5">>, MaxUint64}

\* C1: a callback whose checksum is not the hex HMAC-SHA1 of its encoded
\* value under the API secret never reaches the PaymentHandlerFunc: its
\* call count stays 0, whatever the payload.
C1_TamperedNeverInvokes ==
    (cb.pc # "idle" /\ CbTampered) => (cb.calls = 0 /\ cb.pc # "handled")

C1_Witness ==
    /\ CbFormRead /\ CbTampered
    /\ cb.pc = "replied"
    /\ cb.encoded = EncodeToString(<<"I", "N", "V", "O", "I", "C", "E", "=", "5", "5">>)
    /\ cb.checksum = HmacSha1Hex(CHOOSE s \in Secrets : s # api.secret, cb.encoded)
    /\ cb.calls = 0

RecordFails(part) ==
    LET e == Split(part, "=")
    IN  /\ e[1] \in {KeyINVOICE, KeyPAY_TIME, KeySTAN}
        /\ \/ Len(e) < 2
           \/ e[1] = KeyINVOICE /\ ParseUint(e[2]).err
           \/ e[1] = KeyPAY_TIME /\ ParseTime(e[2]).err
           \/ e[1] = KeySTAN /\ ParseInt(e[2]).err

\* The callback has a matching checksum, a payload that decodes, and no
\* INVOICE, PAY_TIME or STAN record that fails to parse.
CbWellFormed ==
    /\ CbFormRead /\ ~CbTampered
    /\ ~DecodeString(cb.encoded).err
    /\ LET parts == Split(DecodeString(cb.encoded).data, NL)
       IN  \A k \in 1..Len(parts) : ~RecordFails(parts[k])

\* C3: once a well-formed callback has been handled, the handler was
\* invoked exactly once with the parsed Payment and the reply body is
\* INVOICE=<parsed invoice>:STATUS=<s>, s being OK for nil, NO for
\* ErrInvalidInvoice and ERR for any other error of the handler.
C3_WellFormedInvokedOnceAndAnswered ==
    (cb.pc \in {"replied", "panicked"} /\ CbWellFormed)
        => /\ cb.calls = 1
           /\ cb.arg = cb.payment
           /\ cb.reply.code = 200
           /\ cb.reply.body =
                Answer(cb.payment.Invoice,
                       IF cb.ret = Nil THEN StatusOK
                       ELSE IF cb.ret = ErrInvalidInvoice THEN StatusNO
                       ELSE StatusERR)

\* C4: the handling of a callback with a matching checksum and a payload
\* that decodes never panics, whatever its records are.
C4_NeverPanics == cb.pc # "panicked"

\* The callback passed the checksum comparison and its payload decoded.
CbDecoded == CbFormRead /\ ~CbTampered /\ ~DecodeString(cb.encoded).err

\* The handling of the callback is over.
CbOver == cb.pc \in {"replied", "panicked"}

\* The text s starts with the text prefix.
HasPrefix(s, prefix) ==
    Len(s) >= Len(prefix) /\ SubSeq(s, 1, Len(prefix)) = prefix

\* C12: every reply with HTTP status 200 has a body INVOICE=<n>:STATUS=<s>
\* followed by a newline, n a decimal number and s one of OK, NO and ERR,
\* whether the status comes from the parsing or from the handler.
C12_ReplyStatusClosed ==
    cb.reply.code = 200 =>
        LET body == cb.reply.body
            colon == IndexOf(body, ":")
            head == SubSeq(body, 1, colon - 1)
            tail == SubSeq(body, colon + 1, Len(body))
        IN  /\ colon > 0
            /\ HasPrefix(head, <<"I", "N", "V", "O", "I", "C", "E", "=">>)
            /\ AllDigits(SubSeq(head, 9, Len(head)))
            /\ tail \in { <<"S", "T", "A", "T", "U", "S", "=", "O", "K", "\n">>,
                           <<"S", "T", "A", "T", "U", "S", "=", "N", "O", "\n">>,
                           <<"S", "T", "A", "T", "U", "S", "=", "E", "R", "R", "\n">> }

C12_Witness ==
    /\ cb.pc = "replied"
    /\ cb.reply.code = 200
    /\ cb.calls = 1
    /\ cb.ret = Nil
    /\ cb.reply.body = <<"I", "N", "V", "O", "I", "C", "E", "=", "5", "5", ":",
                         "S", "T", "A", "T", "U", "S", "=", "O", "K", "\n">>

\* An INVOICE, PAY_TIME or STAN record whose value is not a number or a
\* time of the expected form.
ValueFails(part) ==
    LET e == Split(part, "=")
    IN  /\ Len(e) >= 2
        /\ \/ e[1] = KeyINVOICE /\ ParseUint(e[2]).err
           \/ e[1] = KeyPAY_TIME /\ ParseTime(e[2]).err
           \/ e[1] = KeySTAN /\ ParseInt(e[2]).err

\* The decoded payload has a record whose value fails to parse.
CbHasFailingValue ==
    LET parts == Split(DecodeString(cb.encoded).data, NL)
    IN  \E k \in 1..Len(parts) : ValueFails(parts[k])

\* C15: when the handling of a checksum-valid callback with an INVOICE,
\* PAY_TIME or STAN record that fails to parse is over, every record of
\* the payload was gone through, the handler was not invoked and the
\* reply is INVOICE=<n>:STATUS=ERR.
C15_ParseErrorsStickyNonAborting ==
    (CbOver /\ CbDecoded /\ CbHasFailingValue) =>
        /\ cb.i = Len(cb.parts) + 1
        /\ cb.calls = 0
        /\ cb.reply.code = 200
        /\ cb.reply.body = Answer(cb.payment.Invoice, StatusERR)

\* C16: the handler is invoked at most once, and only after the checksum
\* matched, the payload decoded and every record was gone through; a
\* payload that does not decode never reaches the handler; and a callback
\* whose handling is over was answered exactly once.
C16_CallbackStateMachine ==
    /\ cb.calls <= 1
    /\ cb.replies <= 1
    /\ cb.calls = 1 => (CbDecoded /\ cb.i = Len(cb.parts) + 1)
    /\ (cb.pc # "idle" /\ DecodeString(cb.encoded).err) => cb.calls = 0
    /\ CbOver => cb.replies = 1

\* The value of a record: what follows its first "=".
ValueOf(part) == SubSeq(part, IndexOf(part, "=") + 1, Len(part))

\* The last record of the payload under the given key, 0 when none.
LastRecord(parts, key) ==
    LET ks == {k \in 1..Len(parts) : HasPrefix(parts[k], key \o << "=" >>)}
    IN  IF ks = {} THEN 0 ELSE CHOOSE k \in ks : \A j \in ks : j <= k

\* C17: once the records of a callback are parsed, Payment.Bcode and
\* Payment.Status are the whole of what follows the first "=" of the last
\* BCODE and STATUS record, also when that value holds a "=" itself.
C17_SplitOnFirstEqual ==
    (cb.pc \in {"parsed", "handled", "replied"} /\ CbDecoded) =>
        LET b == LastRecord(cb.parts, KeyBCODE)
            s == LastRecord(cb.parts, KeySTATUS)
        IN  /\ b # 0 => cb.payment.Bcode = ValueOf(cb.parts[b])
            /\ s # 0 => cb.payment.Status = ValueOf(cb.parts[s])

(***************************************************************************)
(* Properties of New and NewPaymentRequest, under SpecBuild                *)
(***************************************************************************)

\* The index of the last option of the kind in the list, 0 if none.
LastOption(options, kind) ==
    IF \E k \in 1..Len(options) : options[k].opt = kind
    THEN CHOOSE k \in 1..Len(options) :
            /\ options[k].opt = kind
            /\ \A j \in (k + 1)..Len(options) : options[j].opt # kind
    ELSE 0

\* The index of the first option that returns an error, 0 if none.
FirstFailing(options) ==
    LET fails(o) == o.opt = "WithExpirationTime" /\ IsZero(o.time)
    IN  IF \E k \in 1..Len(options) : fails(options[k])
        THEN CHOOSE k \in 1..Len(options) :
                fails(options[k]) /\ \A j \in 1..(k - 1) : ~fails(options[j])
        ELSE 0

\* C9: NewPaymentRequest applies its options in order, the last option
\* touching a field deciding its value; when an option returns an error,
\* that error is returned with a nil request and no option after the
\* failing one is invoked.
C9_OptionsInOrderOrAbort ==
    nprArgs # NoArgs =>
        LET options == nprArgs.options
            f == FirstFailing(options)
            lang == LastOption(options, "WithLanguage")
            cur == LastOption(options, "WithCurrency")
            page == LastOption(options, "WithPage")
            exp == LastOption(options, "WithExpirationTime")
        IN  IF f # 0
            THEN /\ req = NoReq
                 /\ reqErr = Error("invalid time")
                 /\ invoked = f
            ELSE /\ reqErr = Nil
                 /\ req # NoReq
                 /\ invoked = Len(options)
                 /\ req.Language = IF lang = 0 THEN English ELSE options[lang].lang
                 /\ req.Currency = IF cur = 0 THEN EUR ELSE options[cur].cur
                 /\ req.page = IF page = 0 THEN Direct ELSE options[page].page
                 /\ req.ExpirationTime =
                        IF exp = 0 THEN AddDays(nprArgs.now, 7) ELSE options[exp].time

C9_Witness ==
    /\ nprArgs # NoArgs
    /\ nprArgs.options = << OptLanguage(Bulgarian), OptLanguage(English) >>
    /\ req # NoReq
    /\ req.Language = English

\* C10: New(cin, secret) without options returns no error and an API with
\* the production URL and exactly the cin and the secret given; New with
\* WithDemoURL() returns no error and an API with the demo URL.
C10_NewURL ==
    newArgs # NoArgs =>
        /\ newArgs.options = << >> =>
            /\ apiErr = Nil
            /\ api # NoAPI
            /\ api.url = "https://www.epay.bg/"
            /\ api.cin = newArgs.cin
            /\ api.secret = newArgs.secret
        /\ newArgs.options = << "WithDemoURL" >> =>
            /\ apiErr = Nil
            /\ api # NoAPI
            /\ api.url = "https://demo.epay.bg/"

C10_Witness ==
    /\ newArgs # NoArgs
    /\ newArgs.options = << "WithDemoURL" >>
    /\ apiErr = Nil
    /\ api.url = "https://demo.epay.bg/"
    /\ api.cin = newArgs.cin

\* The instant seven days after each time NewPaymentRequest is called at.
SevenDaysAfter(now) ==
    IF now = Time1
    THEN [year |-> 2024, month |-> 3, day |-> 4, hour |-> 9, min |-> 5, sec |-> 0]
    ELSE [year |-> 2024, month |-> 1, day |-> 4, hour |-> 23, min |-> 59, sec |-> 59]

\* C11: NewPaymentRequest called without options returns no error and a
\* request with currency EUR, language English, page credit_paydirect, an
\* expiration time that is not zero and lies seven days after the call,
\* the cin and url of the API, and an empty encoded and checksum.
C11_Defaults ==
    (nprArgs # NoArgs /\ nprArgs.options = << >>) =>
        /\ reqErr = Nil
        /\ req # NoReq
        /\ req.Currency = EUR
        /\ req.Language = English
        /\ req.page = "credit_paydirect"
        /\ req.ExpirationTime # ZeroTime
        /\ req.ExpirationTime = SevenDaysAfter(nprArgs.now)
        /\ req.cin = api.cin
        /\ req.url = api.url
        /\ req.encoded = Empty
        /\ req.checksum = NoSum
        /\ req.Amount = nprArgs.amount
        /\ req.Description = nprArgs.description
        /\ req.Invoice = nprArgs.invoice

C11_Witness ==
    /\ nprArgs # NoArgs
    /\ nprArgs.options = << >>
    /\ nprArgs.now = Time2
    /\ req # NoReq
    /\ req.ExpirationTime.year = 2024
    /\ req.url = "https://demo.epay.bg/"

(***************************************************************************)
(* Properties of encode and CalcChecksum, under SpecRequest                *)
(***************************************************************************)

\* A mandatory field of the request is invalid.
InvalidMandatory(p) ==
    \/ p.cin = Empty
    \/ p.Invoice = Zero
    \/ p.Amount < 10
    \/ p.ExpirationTime = ZeroTime

\* The canonical text of a request: MIN, INVOICE, AMOUNT, EXP_TIME, then
\* CURRENCY, LANGUAGE and DESCRIPTION when not empty.
CanonicalText(p) ==
    Line(KeyMIN, p.cin)
    \o Line(KeyINVOICE, p.Invoice)
    \o Line(KeyAMOUNT, FormatAmount(p.Amount))
    \o Line(KeyEXP_TIME, FormatTime(p.ExpirationTime))
    \o (IF p.Currency # Empty THEN Line(KeyCURRENCY, p.Currency) ELSE Empty)
    \o (IF p.Language # Empty THEN Line(KeyLANGUAGE, p.Language) ELSE Empty)
    \o (IF p.Description # Empty THEN Line(KeyDESCRIPTION, p.Description) ELSE Empty)

\* The keys of a text of KEY=value lines, in order.
KeysOf(text) ==
    LET lines == Split(text, NL)
    IN  [k \in 1..(Len(lines) - 1) |-> Split(lines[k], "=")[1]]

\* C5: when encode has encoded a request, the text under the base64 has
\* one KEY=value line per present field, the keys in the order MIN,
\* INVOICE, AMOUNT, EXP_TIME, CURRENCY, LANGUAGE, DESCRIPTION, no key
\* twice, a description under the key DESCRIPTION.
C5_EncodedIsCanonicalText ==
    \A t \in Threads :
        (pc[t] = "cc_lock" /\ local[t].ranEncode) =>
            LET text == DecodeString(req.encoded).data
                keys == KeysOf(text)
            IN  /\ text = CanonicalText(req)
                /\ \A j, k \in 1..Len(keys) : keys[j] = keys[k] => j = k

\* C6: CalcChecksum called on a request without encoded payload and with
\* an invalid mandatory field returns the wrapped encoding error and
\* leaves encoded and checksum empty; and a request without encoded
\* payload never has a checksum.
C6_InvalidRequestNotSigned ==
    /\ \A t \in Threads :
        (/\ pc[t] = "ret"
         /\ local[t].op = "CalcChecksum"
         /\ local[t].emptyAtCall
         /\ InvalidMandatory(req))
            => /\ local[t].err # Nil
               /\ local[t].err.msg = "encoding error"
               /\ req.encoded = Empty
               /\ req.checksum = NoSum
    /\ req.encoded = Empty => req.checksum = NoSum

C6_Witness ==
    \E t \in Threads :
        /\ pc[t] = "ret"
        /\ local[t].op = "CalcChecksum"
        /\ local[t].emptyAtCall
        /\ req.cin # Empty /\ req.Invoice # Zero /\ req.Amount = 9
        /\ local[t].err = Wrap("encoding error", Error("Amount is invalid"))
        /\ req.checksum = NoSum

\* C7: no goroutine reads encoded or checksum without holding the lock
\* while another goroutine holds the lock to write that field.
C7_NoUnlockedReadDuringWrite ==
    ~(access.kind = "read" /\ ~access.locked /\ access.racing)

\* The encoded values and checksums a callback may carry instead of the
\* signed ones.
OtherEncoded(p) == {Empty, Torn, p.encoded \o << "A" >>, Tail(p.encoded)} \ {p.encoded}

OtherChecksums(p) ==
    ({NoSum, TornSum} \cup {HmacSha1Hex(s, e) : s \in Secrets, e \in {p.encoded, Empty}})
    \ {p.checksum}

\* C8: when CalcChecksum(secret) has returned nil with no other call
\* overlapping it, checksum is the hex HMAC-SHA1 of encoded under the
\* secret; a callback with that encoded and checksum passes the checksum
\* comparison of an API with that secret, and fails it when the encoded
\* value, the checksum or the secret is changed.
C8_SignThenVerify ==
    \A t \in Threads :
        (/\ pc[t] = "ret"
         /\ local[t].op = "CalcChecksum"
         /\ local[t].err = Nil
         /\ local[t].solo)
            => /\ req.encoded # Empty
               /\ req.checksum.alg = "hmac-sha1"
               /\ req.checksum.key = local[t].secret
               /\ req.checksum.msg = req.encoded
               /\ ~ChecksumMismatch(local[t].secret, req.encoded, req.checksum)
               /\ \A s \in Secrets \ {local[t].secret} :
                    ChecksumMismatch(s, req.encoded, req.checksum)
               /\ \A e \in OtherEncoded(req) :
                    ChecksumMismatch(local[t].secret, e, req.checksum)
               /\ \A c \in OtherChecksums(req) :
                    ChecksumMismatch(local[t].secret, req.encoded, c)

C8_Witness ==
    \E t \in Threads :
        /\ pc[t] = "ret"
        /\ local[t].op = "CalcChecksum"
        /\ local[t].err = Nil
        /\ local[t].solo
        /\ local[t].ranEncode
        /\ local[t].secret = "s2"
        /\ ~ChecksumMismatch("s2", req.encoded, req.checksum)

\* C18: when CalcChecksum(secret) has returned nil with no other call
\* overlapping it, on a request without description, encoded is the
\* base64 of the canonical text of the fields as they are at that call and
\* checksum signs it, whatever calls and assignments came before.
C18_EncodedFollowsFields ==
    \A t \in Threads :
        (/\ pc[t] = "ret"
         /\ local[t].op = "CalcChecksum"
         /\ local[t].err = Nil
         /\ local[t].solo
         /\ req.Description = Empty)
            => /\ req.encoded = EncodeToString(CanonicalText(req))
               /\ req.checksum = HmacSha1Hex(local[t].secret, req.encoded)

(***************************************************************************)
(* Properties of PaymentRequestHandler, under SpecHandler                  *)
(***************************************************************************)

\* The names the form value "language" may give Bulgarian by.
BulgarianNames ==
    {<<"b", "g">>, <<"b", "u", "l">>, <<"b", "u", "l", "g", "a", "r", "i", "a", "n">>}

\* C13: a request the handler built a PaymentRequest for has the Language
\* Bulgarian when its form value "language" is bg or another name of
\* Bulgarian, and English when the form value is absent.
C13_LanguageHonoured ==
    (rh.called /\ rh.built) =>
        /\ Trim(ToLower(rh.form.language)) \in BulgarianNames
                => rh.data.Language = Bulgarian
        /\ rh.form.language = Empty => rh.data.Language = English

\* The handler came to the switch on the form value "type".
TypeExamined == rh.called /\ (rh.built \/ rh.msg = "invalid type")

\* C14: an absent type and the type direct give a request with the page
\* credit_paydirect, the type login one with the page paylogin, and any
\* other type is answered "invalid type" with no request built.
C14_TypeHonoured ==
    TypeExamined =>
        LET type == rh.form.type
        IN  IF type \in {Empty, <<"d", "i", "r", "e", "c", "t">>}
            THEN rh.built /\ rh.data.page = "credit_paydirect"
            ELSE IF type = <<"l", "o", "g", "i", "n">>
            THEN rh.built /\ rh.data.page = "paylogin"
            ELSE ~rh.built /\ rh.code = 500 /\ rh.msg = "invalid type"

\* C19: a request whose building or CalcChecksum failed is answered with
\* an error and no page, and every page rendered carries an encoded value
\* and a checksum that are not empty.
C19_NoUnsignedPage ==
    rh.called =>
        /\ (rh.built /\ (rh.dataErr # Nil \/ rh.sumErr # Nil))
                => (~rh.rendered /\ rh.code # 200)
        /\ rh.rendered => (rh.data.encoded # Empty /\ rh.data.checksum # NoSum)

====
